---- MODULE Spec2Model ----
(***************************************************************************)
(* Model of STapp.py, the Streamlit dashboard of the GHSMC scrubber demo.  *)
(* One run of the script reads three sliders, generates a target and a     *)
(* sensor series for the pH and the conductivity channel, and reports the  *)
(* health of both channels from the last sample.                           *)
(*                                                                         *)
(* Numbers are fixed point: a float x of the script is the integer         *)
(* x * SCALE.  A noise draw np.random.normal(0, sigma) is sigma * z with z *)
(* the standard-normal draw, taken from the set Draws.  The series are     *)
(* element-wise numpy expressions, so the model keeps their elements at    *)
(* the last index (the one the reports read) and at one observed index.    *)
(***************************************************************************)
EXTENDS Integers, FiniteSets, Sequences, TLC

\* fixed-point resolution of the script's floats: 1 unit = 0.001
SCALE == 1000

\* largest magnitude of a standard-normal draw the model takes
MaxZ == 3000

\* number of evenly spaced time indices the model observes
NumSamples == 3

\* STapp.py:54
steps == 200

Abs(x) == IF x < 0 THEN -x ELSE x

Max(a, b) == IF a >= b THEN a ELSE b

\* st.slider ranges (STapp.py:39, 43, 47), visited in tenths of the range
GasLoads == {k * (SCALE \div 10) : k \in 0 .. 10}

FoulingFactors == {k * (SCALE \div 10) : k \in 0 .. 10}

NoiseLevels == {SCALE \div 100, SCALE \div 50, SCALE \div 10}

\* the sliders' default values (STapp.py:39, 43, 47)
GasLoadDefault == SCALE \div 2

FoulingDefault == SCALE \div 5

NoiseDefault == SCALE \div 50

\* standard-normal draws behind np.random.normal (STapp.py:63, 71)
Draws == {-MaxZ, -1, 0, 1, MaxZ}

\* the observed time indices, evenly spaced from the first to the last
SampledIdx == {1 + (k * (steps - 1)) \div (NumSamples - 1) : k \in 0 .. (NumSamples - 1)}

\* np.sin(t/8) * SCALE for t = np.linspace(0, 100, steps) (STapp.py:55, 60)
SinT8 ==
  << 0, 63, 125, 187, 249, 309, 368, 426, 482, 536,
     588, 637, 684, 729, 770, 809, 844, 876, 905, 930,
     951, 968, 982, 992, 998, 1000, 998, 992, 982, 969,
     951, 930, 905, 877, 845, 809, 771, 729, 685, 638,
     588, 536, 482, 426, 369, 310, 249, 188, 126, 64,
     1, -62, -124, -186, -248, -308, -367, -425, -481, -535,
     -587, -637, -684, -728, -770, -808, -844, -876, -904, -929,
     -951, -968, -982, -992, -998, -1000, -998, -992, -983, -969,
     -951, -930, -905, -877, -845, -810, -771, -730, -686, -639,
     -589, -537, -483, -427, -370, -311, -250, -189, -127, -65,
     -2, 61, 124, 186, 247, 307, 366, 424, 480, 534,
     586, 636, 683, 728, 769, 808, 843, 875, 904, 929,
     950, 968, 982, 992, 998, 1000, 998, 992, 983, 969,
     952, 931, 906, 877, 846, 810, 772, 731, 686, 639,
     590, 538, 484, 428, 371, 311, 251, 190, 128, 65,
     3, -60, -123, -185, -246, -306, -366, -423, -479, -533,
     -585, -635, -682, -727, -769, -807, -843, -875, -904, -929,
     -950, -968, -982, -992, -998, -1000, -998, -993, -983, -969,
     -952, -931, -906, -878, -846, -811, -773, -731, -687, -640,
     -591, -539, -485, -429, -371, -312, -252, -191, -129, -66 >>

\* np.sin(t/5) * SCALE for t = np.linspace(0, 100, steps) (STapp.py:55, 68)
SinT5 ==
  << 0, 100, 200, 297, 391, 482, 567, 647, 720, 786,
     844, 894, 934, 965, 987, 998, 999, 991, 972, 943,
     905, 858, 802, 738, 667, 588, 504, 415, 322, 225,
     126, 26, -74, -174, -272, -367, -459, -546, -627, -702,
     -770, -830, -882, -925, -958, -982, -996, -1000, -994, -978,
     -951, -916, -871, -817, -755, -686, -609, -527, -439, -346,
     -250, -152, -52, 48, 148, 247, 343, 435, 524, 606,
     683, 753, 815, 869, 914, 950, 977, 993, 1000, 996,
     983, 959, 926, 883, 832, 772, 704, 630, 548, 462,
     371, 275, 178, 78, -22, -123, -222, -318, -412, -501,
     -585, -664, -736, -800, -856, -904, -942, -971, -990, -999,
     -998, -987, -966, -935, -895, -846, -788, -723, -650, -570,
     -485, -395, -300, -203, -104, -4, 97, 196, 294, 388,
     479, 564, 644, 718, 784, 842, 892, 933, 964, 986,
     998, 999, 991, 973, 944, 907, 860, 804, 740, 669,
     591, 507, 418, 325, 229, 130, 30, -71, -171, -269,
     -364, -456, -543, -624, -699, -768, -828, -880, -923, -957,
     -981, -996, -1000, -994, -978, -953, -917, -873, -819, -758,
     -688, -612, -530, -442, -350, -254, -155, -56, 45, 145,
     243, 340, 432, 520, 604, 680, 751, 813, 867, 913 >>

\* STapp.py:60
PhTarget(g, i) == (85 * SCALE) \div 10 - g * 4 + (3 * SinT8[i]) \div 10

\* STapp.py:62
ph_drift(f) == (f * 15) \div 10

PhReadingSwappedArgs(g, f, n, z, i) == PhTarget(g, i) + ph_drift(f) + n

\* STapp.py:63
PhReading(g, f, n, z, i) == PhTarget(g, i) + ph_drift(f) + (n * z)

\* STapp.py:68
CondTarget(g, i) == 200 * SCALE + g * 1800 + 50 * SinT5[i]

cond_attenuationUp(f) == -(f * 800)

\* STapp.py:70
cond_attenuation(f) == f * 800

ClampCondNone(x) == x

\* STapp.py:73
ClampCond(x) == Max(x, 0)

\* STapp.py:71-73
CondReading(g, f, n, z, i) == ClampCond(CondTarget(g, i) - cond_attenuation(f) + (n * 100 * z))

\* STapp.py:84, 119
AbsError(reading, target) == Abs(reading - target)

PhHealthUnclamped(err) == 100 * SCALE - err * 30

\* STapp.py:85
PhHealth(err) == Max(0, 100 * SCALE - err * 30)

CondHealthNoTolerance(err) == Max(0, 100 * SCALE - err)

\* STapp.py:120
CondHealth(err) == Max(0, 100 * SCALE - err \div 10)

PhDriftInclusive(err) == err >= 1 * SCALE

\* STapp.py:109
PhDrift(err) == err > 1 * SCALE

\* STapp.py:148
HighSaturation(target) == target > 1800 * SCALE

ScalingHalf(reading, target) == reading * 10 < target * 5

\* STapp.py:151  (reading < target * 0.7)
Scaling(reading, target) == reading * 10 < target * 7

\* STapp.py:153
CondNominal(health) == health > 90 * SCALE

\* STapp.py:109-112
Tab1Report(err) == IF PhDrift(err) THEN {"PH_DRIFT_CRITICAL"} ELSE {"PH_NOMINAL"}

Tab2ReportIfIf(reading, target, health) ==
  (IF HighSaturation(target) THEN {"HIGH_SATURATION_RISK"} ELSE {})
  \cup (IF Scaling(reading, target) THEN {"SCALING_CRITICAL"} ELSE {})
  \cup (IF CondNominal(health) THEN {"COND_NOMINAL"} ELSE {})

Tab2ReportOnReading(reading, target, health) ==
  (IF HighSaturation(reading) THEN {"HIGH_SATURATION_RISK"} ELSE {})
  \cup (IF Scaling(reading, target) THEN {"SCALING_CRITICAL"}
        ELSE IF CondNominal(health) THEN {"COND_NOMINAL"}
        ELSE {})

\* STapp.py:148-154
Tab2Report(reading, target, health) ==
  (IF HighSaturation(target) THEN {"HIGH_SATURATION_RISK"} ELSE {})
  \cup (IF Scaling(reading, target) THEN {"SCALING_CRITICAL"}
        ELSE IF CondNominal(health) THEN {"COND_NOMINAL"}
        ELSE {})

\* a name of the script that is not bound yet in this run
Unset == -1

NoSeries == [i \in {} |-> 0]

VARIABLES gas_load, fouling_factor, noise_level,
          idx, noise_ph, noise_cond,
          pino_ph_target, sensor_ph_reading,
          pino_cond_target, sensor_cond_reading,
          ph_error, ph_health, cond_error, cond_health,
          report, pc, earlier

inputs == <<gas_load, fouling_factor, noise_level>>

series == <<idx, noise_ph, noise_cond, pino_ph_target, sensor_ph_reading,
            pino_cond_target, sensor_cond_reading>>

tab1 == <<ph_error, ph_health>>

tab2 == <<cond_error, cond_health>>

vars == <<inputs, series, tab1, tab2, report, pc, earlier>>

\* what a pass is given: the slider values and the noise drawn
PassKey == <<gas_load, fouling_factor, noise_level, idx, noise_ph, noise_cond>>

\* what a pass produces
PassOut == <<pino_ph_target, sensor_ph_reading, pino_cond_target, sensor_cond_reading,
             ph_error, ph_health, cond_error, cond_health, report>>

\* history variable `earlier`: a completed pass kept for comparison with the
\* later ones; old once another pass has started after it
NoPass == [key |-> <<>>, out |-> <<>>, old |-> FALSE]

FreshRunKeepReport ==
  /\ idx' = 0
  /\ noise_ph' = NoSeries
  /\ noise_cond' = NoSeries
  /\ pino_ph_target' = NoSeries
  /\ sensor_ph_reading' = NoSeries
  /\ pino_cond_target' = NoSeries
  /\ sensor_cond_reading' = NoSeries
  /\ ph_error' = Unset
  /\ ph_health' = Unset
  /\ cond_error' = Unset
  /\ cond_health' = Unset
  /\ report' = report
  /\ pc' = "generate"
  /\ earlier' = IF earlier = NoPass THEN NoPass ELSE [earlier EXCEPT !.old = TRUE]

\* every rerun executes the script top to bottom in a fresh namespace
FreshRun ==
  /\ idx' = 0
  /\ noise_ph' = NoSeries
  /\ noise_cond' = NoSeries
  /\ pino_ph_target' = NoSeries
  /\ sensor_ph_reading' = NoSeries
  /\ pino_cond_target' = NoSeries
  /\ sensor_cond_reading' = NoSeries
  /\ ph_error' = Unset
  /\ ph_health' = Unset
  /\ cond_error' = Unset
  /\ cond_health' = Unset
  /\ report' = {}
  /\ pc' = "generate"
  /\ earlier' = IF earlier = NoPass THEN NoPass ELSE [earlier EXCEPT !.old = TRUE]

\* first run of the app: the sliders return their default values
Init ==
  /\ gas_load = GasLoadDefault
  /\ fouling_factor = FoulingDefault
  /\ noise_level = NoiseDefault
  /\ idx = 0
  /\ noise_ph = NoSeries
  /\ noise_cond = NoSeries
  /\ pino_ph_target = NoSeries
  /\ sensor_ph_reading = NoSeries
  /\ pino_cond_target = NoSeries
  /\ sensor_cond_reading = NoSeries
  /\ ph_error = Unset
  /\ ph_health = Unset
  /\ cond_error = Unset
  /\ cond_health = Unset
  /\ report = {}
  /\ pc = "generate"
  /\ earlier = NoPass

\* the user moves one slider to a position of GS, FS or NS; the script reruns
SliderChangeIn(GS, FS, NS) ==
  /\ pc = "done"
  /\ \/ \E g \in GS \ {gas_load} :
          /\ gas_load' = g
          /\ UNCHANGED <<fouling_factor, noise_level>>
     \/ \E f \in FS \ {fouling_factor} :
          /\ fouling_factor' = f
          /\ UNCHANGED <<gas_load, noise_level>>
     \/ \E n \in NS \ {noise_level} :
          /\ noise_level' = n
          /\ UNCHANGED <<gas_load, fouling_factor>>
  /\ FreshRun

SliderChange == SliderChangeIn(GasLoads, FoulingFactors, NoiseLevels)

\* the user reruns the app without touching a slider
Rerun ==
  /\ pc = "done"
  /\ UNCHANGED inputs
  /\ FreshRun

\* STapp.py:54-73, observed at an index of IS with draws of DS
GenerateIn(IS, DS) ==
  /\ pc = "generate"
  /\ \E i \in IS :
       \E zp \in [{i, steps} -> DS], zc \in [{i, steps} -> DS] :
          /\ idx' = i
          /\ noise_ph' = zp
          /\ noise_cond' = zc
          /\ pino_ph_target' = [k \in {i, steps} |-> PhTarget(gas_load, k)]
          /\ sensor_ph_reading' =
               [k \in {i, steps} |-> PhReading(gas_load, fouling_factor, noise_level, zp[k], k)]
          /\ pino_cond_target' = [k \in {i, steps} |-> CondTarget(gas_load, k)]
          /\ sensor_cond_reading' =
               [k \in {i, steps} |-> CondReading(gas_load, fouling_factor, noise_level, zc[k], k)]
  /\ pc' = "tab1"
  /\ UNCHANGED <<inputs, tab1, tab2, report, earlier>>

Generate == GenerateIn(SampledIdx, Draws)

\* STapp.py:80-112
Tab1 ==
  /\ pc = "tab1"
  /\ ph_error' = AbsError(sensor_ph_reading[steps], pino_ph_target[steps])
  /\ ph_health' = PhHealth(ph_error')
  /\ report' = report \cup Tab1Report(ph_error')
  /\ pc' = "tab2"
  /\ UNCHANGED <<inputs, series, tab2, earlier>>

\* STapp.py:115-154
Tab2 ==
  /\ pc = "tab2"
  /\ cond_error' = AbsError(sensor_cond_reading[steps], pino_cond_target[steps])
  /\ cond_health' = CondHealth(cond_error')
  /\ report' = report \cup
       Tab2Report(sensor_cond_reading[steps], pino_cond_target[steps], cond_health')
  /\ pc' = "done"
  /\ UNCHANGED <<inputs, series, tab1, earlier>>

Next == SliderChange \/ Rerun \/ Generate \/ Tab1 \/ Tab2

Spec == Init /\ [][Next]_vars

(***************************************************************************)
(* A second specification for comparing passes with one another: the same  *)
(* script over fewer slider positions and draws, and a history step that   *)
(* keeps a completed pass.                                                  *)
(***************************************************************************)
PassGasLoads == {0, GasLoadDefault, SCALE}

PassFoulings == {FoulingDefault, 9 * (SCALE \div 10)}

PassNoiseLevels == {NoiseDefault, SCALE \div 10}

PassDraws == {-1, 0, 1}

SliderChangePasses == SliderChangeIn(PassGasLoads, PassFoulings, PassNoiseLevels)

GeneratePasses == GenerateIn({steps}, PassDraws)

\* history step: keep the pass that has just completed
Remember ==
  /\ pc = "done"
  /\ earlier' = [key |-> PassKey, out |-> PassOut, old |-> FALSE]
  /\ earlier' # earlier
  /\ UNCHANGED <<inputs, series, tab1, tab2, report, pc>>

NextPasses == SliderChangePasses \/ Rerun \/ GeneratePasses \/ Tab1 \/ Tab2 \/ Remember

SpecPasses == Init /\ [][NextPasses]_vars

(***************************************************************************)
(* Positions of a pass                                                      *)
(***************************************************************************)
Generated == pc \in {"tab1", "tab2", "done"}

Tab1Done == pc \in {"tab2", "done"}

PassDone == pc = "done"

LastPhErr == Abs(sensor_ph_reading[steps] - pino_ph_target[steps])

LastCondErr == Abs(sensor_cond_reading[steps] - pino_cond_target[steps])

\* C1: every element of the conductivity sensor reading is >= 0 after
\* generation, whatever the inputs and the noise drawn.
C1_CondReadingNonNegative ==
  Generated => \A k \in DOMAIN sensor_cond_reading : sensor_cond_reading[k] >= 0

\* C1 witness: a large negative draw drove an element below zero and the clamp
\* returned 0.
C1_Witness ==
  /\ Generated
  /\ \E k \in DOMAIN sensor_cond_reading :
       /\ noise_cond[k] = -MaxZ
       /\ pino_cond_target[k] - fouling_factor * 800 - noise_level * 100 * MaxZ < 0
       /\ sensor_cond_reading[k] = 0

\* C2: SCALING_CRITICAL is reported exactly when reading[last] < 0.7 *
\* target[last]; nominal exactly when SCALING_CRITICAL is not reported and
\* health > 90; the two are never reported together.
C2_ScalingAndNominal ==
  PassDone =>
    /\ ("SCALING_CRITICAL" \in report)
         <=> (sensor_cond_reading[steps] * 10 < pino_cond_target[steps] * 7)
    /\ ("COND_NOMINAL" \in report)
         <=> ("SCALING_CRITICAL" \notin report /\ cond_health > 90 * SCALE)
    /\ ~ ("SCALING_CRITICAL" \in report /\ "COND_NOMINAL" \in report)

\* C2 witness: gasLoad = 0, foulingFactor = 0.1, zero noise: SCALING_CRITICAL
\* with health > 90, and no nominal status.
C2_Witness ==
  /\ PassDone
  /\ gas_load = 0
  /\ fouling_factor = SCALE \div 10
  /\ noise_cond[steps] = 0
  /\ cond_health > 90 * SCALE
  /\ "SCALING_CRITICAL" \in report
  /\ "COND_NOMINAL" \notin report

\* C3: the pH evaluation reports exactly one status: PH_DRIFT_CRITICAL when
\* |reading[last] - target[last]| > 1.0, nominal when it is <= 1.0.
C3_PhExactlyOne ==
  Tab1Done =>
    /\ ph_error = LastPhErr
    /\ ("PH_DRIFT_CRITICAL" \in report) <=> (LastPhErr > SCALE)
    /\ ("PH_NOMINAL" \in report) <=> (LastPhErr <= SCALE)
    /\ ("PH_DRIFT_CRITICAL" \in report) # ("PH_NOMINAL" \in report)

\* C3 witness: an error of exactly 1.0 reported nominal.
C3_Witness ==
  /\ Tab1Done
  /\ ph_error = SCALE
  /\ "PH_NOMINAL" \in report
  /\ "PH_DRIFT_CRITICAL" \notin report

\* C4: both health scores lie in [0,100]: pH health = max(0, 100 - 30*error),
\* conductivity health = max(0, 100 - error/10), error the non-negative
\* absolute difference of the last reading and the last target.
C4_HealthInRange ==
  /\ Tab1Done =>
       /\ ph_error = LastPhErr
       /\ ph_error >= 0
       /\ ph_health = (IF 30 * LastPhErr >= 100 * SCALE THEN 0
                       ELSE 100 * SCALE - 30 * LastPhErr)
       /\ ph_health >= 0
       /\ ph_health <= 100 * SCALE
  /\ PassDone =>
       /\ cond_error = LastCondErr
       /\ cond_error >= 0
       /\ cond_health = (IF LastCondErr \div 10 >= 100 * SCALE THEN 0
                         ELSE 100 * SCALE - LastCondErr \div 10)
       /\ cond_health >= 0
       /\ cond_health <= 100 * SCALE

\* C4 witness: errors large enough that both scores are floored at 0.
C4_Witness ==
  /\ PassDone
  /\ 30 * ph_error > 100 * SCALE
  /\ cond_error > 1000 * SCALE
  /\ ph_health = 0
  /\ cond_health = 0

\* C5: HIGH_SATURATION_RISK is reported exactly when target[last] > 1800,
\* whatever else is reported, and that depends on gasLoad alone.
C5_HighSaturation ==
  PassDone =>
    /\ ("HIGH_SATURATION_RISK" \in report) <=> (pino_cond_target[steps] > 1800 * SCALE)
    /\ ("HIGH_SATURATION_RISK" \in report)
         <=> (gas_load * 1800 > 1600 * SCALE - 50 * SinT5[steps])

\* C5 witness: HIGH_SATURATION_RISK and SCALING_CRITICAL reported in one pass.
C5_Witness ==
  /\ PassDone
  /\ "HIGH_SATURATION_RISK" \in report
  /\ "SCALING_CRITICAL" \in report

\* the offset of the conductivity reading from its target at index k with a
\* zero noise term, had the fouling factor been f
CondOffsetAt(f, k) == CondReading(gas_load, f, noise_level, 0, k) - CondTarget(gas_load, k)

PhOffsetAt(f, k) == PhReading(gas_load, f, noise_level, 0, k) - PhTarget(gas_load, k)

\* C6 as stated: with a zero noise term, at every index, pH reading - target =
\* +1.5 * foulingFactor and conductivity reading - target = -800 * foulingFactor.
C6_LinearOffsets ==
  Generated =>
    \A k \in DOMAIN sensor_ph_reading :
      /\ noise_ph[k] = 0 =>
           10 * (sensor_ph_reading[k] - pino_ph_target[k]) = 15 * fouling_factor
      /\ noise_cond[k] = 0 =>
           sensor_cond_reading[k] - pino_cond_target[k] = - 800 * fouling_factor

\* C6 amended: with a zero noise term, pH reading - target = +1.5 *
\* foulingFactor; conductivity reading - target = -800 * foulingFactor when
\* target >= 800 * foulingFactor, and the reading is 0 otherwise; the pH offset
\* never decreases and the conductivity offset never increases as
\* foulingFactor grows (compared, right after generation, with the offsets
\* every larger fouling factor would give).
C6_ClampedOffsets ==
  Generated =>
    \A k \in DOMAIN sensor_ph_reading :
      /\ noise_ph[k] = 0 =>
           10 * (sensor_ph_reading[k] - pino_ph_target[k]) = 15 * fouling_factor
      /\ noise_cond[k] = 0 =>
           IF pino_cond_target[k] >= 800 * fouling_factor
             THEN sensor_cond_reading[k] - pino_cond_target[k] = - 800 * fouling_factor
             ELSE sensor_cond_reading[k] = 0
      /\ \A f \in FoulingFactors :
           (pc = "tab1" /\ f >= fouling_factor) =>
             /\ PhOffsetAt(f, k) >= PhOffsetAt(fouling_factor, k)
             /\ CondOffsetAt(f, k) <= CondOffsetAt(fouling_factor, k)
             /\ f > fouling_factor => PhOffsetAt(f, k) > PhOffsetAt(fouling_factor, k)

\* C6 witness: zero noise on both channels, a positive fouling factor, and a
\* conductivity target below 800 * foulingFactor, so that the reading is 0.
C6_Witness ==
  /\ Generated
  /\ \E k \in DOMAIN sensor_ph_reading :
       /\ noise_ph[k] = 0
       /\ noise_cond[k] = 0
       /\ fouling_factor > 0
       /\ pino_cond_target[k] < 800 * fouling_factor
       /\ sensor_cond_reading[k] = 0
       /\ sensor_ph_reading[k] > pino_ph_target[k]

\* C7: gasLoad = 0.5, foulingFactor = 0.2, zero noise: pH error 0.3, pH health
\* 91, pH nominal; conductivity error 160, health 84, and none of
\* SCALING_CRITICAL, HIGH_SATURATION_RISK and conductivity nominal reported.
C7_DefaultScenario ==
  (/\ PassDone
   /\ gas_load = GasLoadDefault
   /\ fouling_factor = FoulingDefault
   /\ noise_ph[steps] = 0
   /\ noise_cond[steps] = 0)
  =>
    /\ 10 * ph_error = 3 * SCALE
    /\ ph_health = 91 * SCALE
    /\ cond_error = 160 * SCALE
    /\ cond_health = 84 * SCALE
    /\ report = {"PH_NOMINAL"}

\* C7 witness: a completed pass at the sliders' defaults with zero noise at the
\* last index.
C7_Witness ==
  /\ PassDone
  /\ gas_load = SCALE \div 2
  /\ fouling_factor = SCALE \div 5
  /\ noise_ph[steps] = 0
  /\ noise_cond[steps] = 0
  /\ "PH_NOMINAL" \in report

\* C8: foulingFactor = 0 and a zero noise term: the reading equals the target
\* on both channels at every index; both errors are 0, both health scores
\* 100, no PH_DRIFT_CRITICAL or SCALING_CRITICAL, both channels nominal.
C8_NoFoulingNoNoise ==
  /\ (Generated /\ fouling_factor = 0) =>
       \A k \in DOMAIN sensor_ph_reading :
         /\ noise_ph[k] = 0 => sensor_ph_reading[k] = pino_ph_target[k]
         /\ noise_cond[k] = 0 => sensor_cond_reading[k] = pino_cond_target[k]
  /\ (Tab1Done /\ fouling_factor = 0 /\ noise_ph[steps] = 0) =>
       /\ ph_error = 0
       /\ ph_health = 100 * SCALE
       /\ "PH_DRIFT_CRITICAL" \notin report
       /\ "PH_NOMINAL" \in report
  /\ (PassDone /\ fouling_factor = 0 /\ noise_cond[steps] = 0) =>
       /\ cond_error = 0
       /\ cond_health = 100 * SCALE
       /\ "SCALING_CRITICAL" \notin report
       /\ "COND_NOMINAL" \in report

\* C8 witness: a completed pass without fouling and with zero noise at the
\* last and at another index, at the lowest gas load.
C8_Witness ==
  /\ PassDone
  /\ fouling_factor = 0
  /\ gas_load = 0
  /\ idx # steps
  /\ \A k \in DOMAIN noise_ph : noise_ph[k] = 0 /\ noise_cond[k] = 0
  /\ report = {"PH_NOMINAL", "COND_NOMINAL"}

\* C9 as stated: in every pass where neither SCALING_CRITICAL nor nominal is
\* reported, conductivity health is at least 70 and at most 90.
C9_UnreportedBand ==
  (PassDone /\ "SCALING_CRITICAL" \notin report /\ "COND_NOMINAL" \notin report)
    => (cond_health >= 70 * SCALE /\ cond_health <= 90 * SCALE)

\* C9 amended: in every pass where neither SCALING_CRITICAL nor nominal is
\* reported, conductivity health is at most 90 and reading[last] >= 0.7 *
\* target[last]; the health has no lower bound of 70.
C9_UnreportedAtMost90 ==
  (PassDone /\ "SCALING_CRITICAL" \notin report /\ "COND_NOMINAL" \notin report)
    => /\ cond_health <= 90 * SCALE
       /\ sensor_cond_reading[steps] * 10 >= pino_cond_target[steps] * 7

\* C9 witness: zero noise, nothing reported for the conductivity channel, and
\* a health below 70.
C9_Witness ==
  /\ PassDone
  /\ noise_cond[steps] = 0
  /\ "SCALING_CRITICAL" \notin report
  /\ "COND_NOMINAL" \notin report
  /\ cond_health < 70 * SCALE

\* a pass kept earlier had the inputs and the draws of the pass just completed
SamePassAgain == PassDone /\ earlier.old /\ earlier.key = PassKey

PassesAgree == SamePassAgain => earlier.out = PassOut

ScriptKeepsInputs == (pc # "done") => UNCHANGED inputs

\* C10: two passes with identical inputs and identical noise draws produce
\* identical series, errors, health scores and reports whatever passes came
\* before them, and no pass modifies the inputs.
C10_NoCrossPassState == [] PassesAgree /\ [][ScriptKeepsInputs]_vars

\* C10 witness: a pass away from the slider defaults completes with the inputs
\* and draws of a pass kept earlier, another run having started in between.
C10_Witness ==
  /\ SamePassAgain
  /\ gas_load # GasLoadDefault
  /\ "HIGH_SATURATION_RISK" \in report

====
